---- MODULE Spec2Model ----
(***************************************************************************)
(* Morphology-to-conductance-network assembly of jaxley:                   *)
(*   jaxley/utils/cell_utils.py  (topology, index remapping, grouped sums, *)
(*                                edge tables, axial conductances)         *)
(*   jaxley/modules/cell.py      (Cell construction)                       *)
(*                                                                         *)
(* Python arrays are modelled as sequences; the element with Python index  *)
(* i is At(s, i) = s[i + 1], so that every index below is the source's own *)
(* 0-based index.  Every function of the source is an operator, and each   *)
(* specification draws the function's inputs in Init and applies it in one *)
(* action.                                                                 *)
(***************************************************************************)
EXTENDS Integers, Sequences, FiniteSets, TLC

VARIABLES
    pc,                 \* position of the driver: "start", then the call made
    parents,            \* compute_levels: the parent array passed in
    levels,             \* compute_levels: its outcome
    arr,                \* remap_to_consecutive: the array passed in
    remapped,           \* remap_to_consecutive(arr)
    remapped_again,     \* remap_to_consecutive(remapped)
    values_to_sum,      \* group_and_sum: the values passed in
    inds_to_group_by,   \* group_and_sum: the group id of each value
    num_branchpoints,   \* group_and_sum: the number of groups
    group_sums,         \* group_and_sum: the array returned
    indexed_add,        \* group_and_sum: whether `.at[inds].add` was executed
    comb_parents,       \* the parent array of the cell's branches
    branch_edges,       \* the branch-edge table: rows <<parent, child>>
    children_and_parents,   \* what compute_children_and_parents returned
    morph,              \* outcome of compute_morphology_indices_in_levels
    comp_edges,         \* the compartment-edge table: rows [source, sink, type]
    params,             \* radius, length, axial_resistivity, capacitance
    axial_conds,        \* outcome of compute_axial_conductances
    ctor_args,          \* Cell(branches, parents): the arguments
    cell,               \* the Cell under construction
    children_in_level,  \* outcome of compute_children_in_level
    parents_in_level,   \* outcome of compute_parents_in_level
    coupling_args,      \* radii, resistivities and lengths of two compartments
    coupling_cond,      \* compute_coupling_cond on these arguments
    coupling_cond_swapped,  \* compute_coupling_cond with the two swapped
    branch_conds,       \* what Cell.init_cell_conds returned
    summed_args,        \* update_summed_coupling_conds: the arguments
    summed_conds        \* update_summed_coupling_conds: the array returned

topoVars  == <<parents, levels>>
remapVars == <<arr, remapped, remapped_again>>
groupVars == <<values_to_sum, inds_to_group_by, num_branchpoints,
               group_sums, indexed_add>>
morphVars == <<comb_parents, branch_edges, children_and_parents, morph>>
condVars  == <<comp_edges, params, axial_conds>>
cellVars  == <<ctor_args, cell>>
levelVars == <<children_in_level, parents_in_level>>
couplingVars == <<coupling_args, coupling_cond, coupling_cond_swapped,
                  branch_conds>>
summedVars == <<summed_args, summed_conds>>

vars == <<pc, topoVars, remapVars, groupVars, morphVars, condVars, cellVars,
          levelVars, couplingVars, summedVars>>

(***************************************************************************)
(* Bounds of the model.                                                    *)
(***************************************************************************)
MaxBranches == 4        \* longest parent array given to compute_levels
MaxArr      == 4        \* longest array given to remap_to_consecutive
MaxGroups   == 2        \* largest num_branchpoints given to group_and_sum
MaxSummed   == 3        \* most values given to group_and_sum
MaxTreeBranches == 5    \* most branches of a tree whose edge tables are built
MaxEdges    == 3        \* most rows of a compartment-edge table
MaxGeom     == 2        \* largest radius, resistivity or length of two coupled compartments
MaxCondBranches == 3    \* most branches of a cell whose summed conductances are updated
MaxNseg     == 2        \* most compartments per branch of such a cell

\* The conductances group_and_sum is given.
GroupVals == {0, 3, 4, 5}

\* The values the arrays given to remap_to_consecutive are drawn from:
\* sparse, unsorted once placed in an array, with a negative one.
RemapVals == {-1, 0, 3, 7}

(***************************************************************************)
(* Python / numpy indexing.                                                *)
(***************************************************************************)
At(s, i) == s[i + 1]

SetAt(s, i, v) == [s EXCEPT ![i + 1] = v]

\* (variant: negative indices refused)
IndexOk_no_negative(i, n) == (0 <= i) /\ (i < n)

\* numpy accepts the indices -n .. n-1 of an array of length n
IndexOk(i, n) == (-n <= i) /\ (i < n)

\* and reads a negative index i as n + i
NormIndex(i, n) == IF i < 0 THEN n + i ELSE i

Range(s) == {s[k] : k \in 1..Len(s)}

SeqsUpTo(S, n) == UNION {[1..m -> S] : m \in 0..n}

Zeros(n) == [k \in 1..n |-> 0]

(***************************************************************************)
(* Topology Builder: compute_levels.                                       *)
(***************************************************************************)
\* (variant: a branch takes over its parent's level unchanged)
RECURSIVE levels_loop_no_increment(_, _, _)
levels_loop_no_increment(ps, lv, i) ==
    IF i = Len(ps) THEN [status |-> "ok", levels |-> lv]
    ELSE LET p == At(ps, i) IN
         IF p = -1 THEN levels_loop_no_increment(ps, SetAt(lv, i, 0), i + 1)
         ELSE IF ~IndexOk(p, Len(ps))
              THEN [status |-> "IndexError", levels |-> <<>>]
              ELSE levels_loop_no_increment(ps,
                               SetAt(lv, i, At(lv, NormIndex(p, Len(ps)))),
                               i + 1)

RECURSIVE levels_loop(_, _, _)
levels_loop(ps, lv, i) ==
    IF i = Len(ps) THEN [status |-> "ok", levels |-> lv]
    ELSE LET p == At(ps, i) IN
         IF p = -1 THEN levels_loop(ps, SetAt(lv, i, 0), i + 1)
         ELSE IF ~IndexOk(p, Len(ps))
              THEN [status |-> "IndexError", levels |-> <<>>]
              ELSE levels_loop(ps,
                               SetAt(lv, i, At(lv, NormIndex(p, Len(ps))) + 1),
                               i + 1)

compute_levels(ps) == levels_loop(ps, Zeros(Len(ps)), 0)

NotRun == [status |-> "none", levels |-> <<>>]

\* Every parent array of up to MaxBranches entries: well-formed ones, and
\* ones with cycles, with parents behind their children, and with entries
\* outside the array (one beyond each end of -1 .. n-1).
ParentArrays ==
    UNION {[1..n -> (-2)..n] : n \in 0..MaxBranches}

InitTopo ==
    /\ parents \in ParentArrays
    /\ levels = NotRun

IdleTopo ==
    /\ parents = <<>>
    /\ levels = NotRun

ComputeLevels ==
    /\ pc = "start"
    /\ pc' = "levels"
    /\ levels' = compute_levels(parents)
    /\ UNCHANGED <<parents, remapVars, groupVars, morphVars, condVars, cellVars,
                   levelVars, couplingVars, summedVars>>

(***************************************************************************)
(* Index Remapper: remap_to_consecutive.                                   *)
(***************************************************************************)
SetMin(S) == CHOOSE m \in S : \A x \in S : m <= x

\* jnp.unique / np.unique: the distinct values, in increasing order
RECURSIVE SortedSeq(_)
SortedSeq(S) ==
    IF S = {} THEN <<>>
    ELSE <<SetMin(S)>> \o SortedSeq(S \ {SetMin(S)})

\* (variant: the distinct values in the order of their first appearance)
RECURSIVE first_seen(_, _)
first_seen(a, seen) ==
    IF a = <<>> THEN <<>>
    ELSE IF Head(a) \in seen THEN first_seen(Tail(a), seen)
         ELSE <<Head(a)>> \o first_seen(Tail(a), seen \cup {Head(a)})

unique_first_seen(a) == first_seen(a, {})

\* (variant: the distinct values in decreasing order)
Reverse(s) == [k \in 1..Len(s) |-> s[Len(s) + 1 - k]]

unique_descending(a) == Reverse(SortedSeq(Range(a)))

unique(a) == SortedSeq(Range(a))

\* return_inverse: for each element, its Python index in the unique array
inverse_indices(a, u) ==
    [k \in 1..Len(a) |-> (CHOOSE j \in 1..Len(u) : u[j] = a[k]) - 1]

remap_to_consecutive(a) == inverse_indices(a, unique(a))

InitRemap ==
    /\ arr \in SeqsUpTo(RemapVals, MaxArr)
    /\ remapped = <<>>
    /\ remapped_again = <<>>

IdleRemap ==
    /\ arr = <<>>
    /\ remapped = <<>>
    /\ remapped_again = <<>>

Remap ==
    /\ pc = "start"
    /\ pc' = "remapped"
    /\ remapped' = remap_to_consecutive(arr)
    /\ UNCHANGED <<arr, remapped_again, topoVars, groupVars, morphVars, condVars, cellVars,
                   levelVars, couplingVars, summedVars>>

RemapAgain ==
    /\ pc = "remapped"
    /\ pc' = "remapped_again"
    /\ remapped_again' = remap_to_consecutive(remapped)
    /\ UNCHANGED <<arr, remapped, topoVars, groupVars, morphVars, condVars, cellVars,
                   levelVars, couplingVars, summedVars>>

(***************************************************************************)
(* Network Assembler: group_and_sum.                                       *)
(***************************************************************************)
\* (variant: `.at[inds].set`, a later value overwrites an earlier one)
RECURSIVE at_set(_, _, _, _)
at_set(sums, inds, vals, k) ==
    IF k = Len(inds) THEN sums
    ELSE LET i == At(inds, k) IN
         IF IndexOk(i, Len(sums))
         THEN at_set(SetAt(sums, NormIndex(i, Len(sums)), At(vals, k)),
                          inds, vals, k + 1)
         ELSE at_set(sums, inds, vals, k + 1)

\* `x.at[inds].add(vals)`: every value is added at its index, values with the
\* same index accumulate; an index outside the array is dropped (the default
\* mode of a jax scatter)
RECURSIVE at_add(_, _, _, _)
at_add(sums, inds, vals, k) ==
    IF k = Len(inds) THEN sums
    ELSE LET i == At(inds, k) IN
         IF IndexOk(i, Len(sums))
         THEN at_add(SetAt(sums, NormIndex(i, Len(sums)),
                                At(sums, NormIndex(i, Len(sums))) + At(vals, k)),
                          inds, vals, k + 1)
         ELSE at_add(sums, inds, vals, k + 1)

\* (variant: the if-case lets zero branch points through)
needs_indexed_add_always(n) == n >= 0

\* `if num_branchpoints > 0:`
needs_indexed_add(n) == n > 0

group_and_sum(vals, inds, n) ==
    IF needs_indexed_add(n)
    THEN [group_sums |-> at_add(Zeros(n), inds, vals, 0), indexed_add |-> TRUE]
    ELSE [group_sums |-> Zeros(n), indexed_add |-> FALSE]

\* Any number of branch points up to MaxGroups with any ids below MaxGroups:
\* ids that fit the number of branch points, ids outside it, and ids passed
\* along with zero branch points.
InitGroup ==
    /\ num_branchpoints \in 0..MaxGroups
    /\ \E m \in 0..MaxSummed :
          /\ inds_to_group_by \in [1..m -> 0..(MaxGroups - 1)]
          /\ values_to_sum \in [1..m -> GroupVals]
    /\ group_sums = <<>>
    /\ indexed_add = FALSE

IdleGroup ==
    /\ num_branchpoints = 0
    /\ inds_to_group_by = <<>>
    /\ values_to_sum = <<>>
    /\ group_sums = <<>>
    /\ indexed_add = FALSE

GroupAndSum ==
    /\ pc = "start"
    /\ pc' = "grouped"
    /\ LET r == group_and_sum(values_to_sum, inds_to_group_by, num_branchpoints)
       IN  /\ group_sums' = r.group_sums
           /\ indexed_add' = r.indexed_add
    /\ UNCHANGED <<values_to_sum, inds_to_group_by, num_branchpoints,
                   topoVars, remapVars, morphVars, condVars, cellVars,
                   levelVars, couplingVars, summedVars>>

(***************************************************************************)
(* Edge Classifier: compute_children_and_parents and                       *)
(* compute_morphology_indices_in_levels.                                   *)
(***************************************************************************)
\* Cell.__init__: one row per branch after the first, its parent taken from
\* the parent array and its own index as the child
branch_edges_of(ps) ==
    [k \in 1..(Len(ps) - 1) |-> <<At(ps, k), k>>]

Column(table, c) == [k \in 1..Len(table) |-> table[k][c]]

\* (variant: the parent column is returned as it is, one entry per row)
compute_children_and_parents_not_unique(edges) ==
    [par_inds  |-> Column(edges, 1),
     child_inds |-> Column(edges, 2),
     child_belongs_to_branchpoint |-> remap_to_consecutive(Column(edges, 1))]

\* (variant: the parent's branch index is used as the branch-point id)
compute_children_and_parents_not_remapped(edges) ==
    [par_inds  |-> unique(Column(edges, 1)),
     child_inds |-> Column(edges, 2),
     child_belongs_to_branchpoint |-> Column(edges, 1)]

compute_children_and_parents(edges) ==
    [par_inds  |-> unique(Column(edges, 1)),
     child_inds |-> Column(edges, 2),
     child_belongs_to_branchpoint |-> remap_to_consecutive(Column(edges, 1))]

\* (variant: the upper end is included)
arange_inclusive(n) == [k \in 1..(n + 1) |-> k - 1]

arange(n) == [k \in 1..n |-> k - 1]

\* jnp.stack([a, b]).T: the rows <<a[k], b[k]>>; arrays of different lengths
\* cannot be stacked
CanStack(a, b) == Len(a) = Len(b)

StackT(a, b) == [k \in 1..Len(a) |-> <<a[k], b[k]>>]

NoTables == [status |-> "none", num_branchpoints |-> 0,
             children |-> <<>>, parents |-> <<>>]

compute_morphology_indices_in_levels(nbp, cbb, par_inds, child_inds) ==
    IF CanStack(child_inds, cbb) /\ CanStack(par_inds, arange(nbp))
    THEN [status |-> "ok", num_branchpoints |-> nbp,
          children |-> StackT(child_inds, cbb),
          parents |-> StackT(par_inds, arange(nbp))]
    ELSE [status |-> "ValueError", num_branchpoints |-> nbp,
          children |-> <<>>, parents |-> <<>>]

\* the branch reached from b by k parent-steps, -1 past the root
RECURSIVE Up(_, _, _)
Up(ps, b, k) ==
    IF k = 0 \/ b = -1 THEN b ELSE Up(ps, At(ps, b), k - 1)

\* The parent arrays of the trees of up to MaxTreeBranches branches rooted in
\* branch 0: every other branch has a parent and reaches the root.
TreeParents ==
    UNION {
        {ps \in [1..n -> (-1)..(n - 1)] :
            /\ ps[1] = -1
            /\ \A b \in 1..(n - 1) : At(ps, b) # -1 /\ Up(ps, b, n) = -1}
        : n \in 1..MaxTreeBranches}

InitMorph ==
    /\ comb_parents \in TreeParents
    /\ branch_edges = branch_edges_of(comb_parents)
    /\ children_and_parents = <<>>
    /\ morph = NoTables

IdleMorph ==
    /\ comb_parents = <<>>
    /\ branch_edges = <<>>
    /\ children_and_parents = <<>>
    /\ morph = NoTables

ComputeChildrenAndParents ==
    /\ pc = "start"
    /\ pc' = "children_and_parents"
    /\ children_and_parents' = compute_children_and_parents(branch_edges)
    /\ UNCHANGED <<comb_parents, branch_edges, morph,
                   topoVars, remapVars, groupVars, condVars, cellVars,
                   levelVars, couplingVars, summedVars>>

\* the caller passes the number of branch points along
ComputeMorphologyIndices ==
    /\ pc = "children_and_parents"
    /\ pc' = "morph"
    /\ \E nbp \in 0..MaxTreeBranches :
          morph' = compute_morphology_indices_in_levels(
                       nbp,
                       children_and_parents.child_belongs_to_branchpoint,
                       children_and_parents.par_inds,
                       children_and_parents.child_inds)
    /\ UNCHANGED <<comb_parents, branch_edges, children_and_parents,
                   topoVars, remapVars, groupVars, condVars, cellVars,
                   levelVars, couplingVars, summedVars>>

(***************************************************************************)
(* Numbers.  Radii, lengths, resistivities and capacitances are floats of  *)
(* integral value; what the formulas compute from them is kept exactly, as *)
(* the fraction num/den in lowest terms times (10^7)^e7.  The factor 10^7  *)
(* of the unit conversion is kept as an exponent, so that a value is not   *)
(* limited by the width of an integer; num and den stay far below 5^7, so  *)
(* each value has one representation.  A division by zero raises nothing   *)
(* in jax: it gives inf, -inf or nan, which are all NonFinite here.        *)
(***************************************************************************)
Abs(x) == IF x < 0 THEN -x ELSE x

RECURSIVE GCD(_, _)
GCD(a, b) == IF b = 0 THEN a ELSE GCD(b, a % b)

NonFinite == [num |-> 0, den |-> 0, e7 |-> 0]

IsFinite(q) == q.den # 0

\* n/d * (10^7)^e in lowest terms, the sign on the numerator
Q(n, d, e) ==
    IF d = 0 THEN NonFinite
    ELSE IF n = 0 THEN [num |-> 0, den |-> 1, e7 |-> 0]
    ELSE LET g == GCD(Abs(n), Abs(d))
             sgn == IF d < 0 THEN -1 ELSE 1
         IN  [num |-> sgn * (n \div g), den |-> sgn * (d \div g), e7 |-> e]

QInt(n) == Q(n, 1, 0)

QMul(a, b) ==
    IF ~IsFinite(a) \/ ~IsFinite(b) THEN NonFinite
    ELSE Q(a.num * b.num, a.den * b.den, a.e7 + b.e7)

QDiv(a, b) ==
    IF ~IsFinite(a) \/ ~IsFinite(b) THEN NonFinite
    ELSE Q(a.num * b.den, a.den * b.num, a.e7 - b.e7)

\* `* 10**7`
TimesTenPow7(a) == IF IsFinite(a) THEN Q(a.num, a.den, a.e7 + 1) ELSE NonFinite

IsNegative(q) == IsFinite(q) /\ q.num < 0

(***************************************************************************)
(* Conductance Calculator.                                                 *)
(***************************************************************************)
\* (variant: the two resistances are subtracted)
compute_coupling_cond_difference(rad1, rad2, r_a1, r_a2, l1, l2) ==
    TimesTenPow7(
        QDiv(QDiv(QInt(rad1 * rad2 * rad2),
                  QInt(r_a1 * rad2 * rad2 * l1 - r_a2 * rad1 * rad1 * l2)),
             QInt(l1)))

compute_coupling_cond(rad1, rad2, r_a1, r_a2, l1, l2) ==
    TimesTenPow7(
        QDiv(QDiv(QInt(rad1 * rad2 * rad2),
                  QInt(r_a1 * rad2 * rad2 * l1 + r_a2 * rad1 * rad1 * l2)),
             QInt(l1)))

compute_coupling_cond_branchpoint(rad, r_a, l) ==
    TimesTenPow7(QDiv(QDiv(QInt(rad), QInt(r_a)), QInt(l * l)))

compute_impact_on_node(rad, r_a, l) ==
    QDiv(QDiv(QInt(rad * rad), QInt(r_a)), QInt(l))

(***************************************************************************)
(* Network Assembler: compute_axial_conductances.                          *)
(***************************************************************************)
\* comp_edges[condition]: the rows whose type is in `types`, in table order
RowsOfType(edges, types) == SelectSeq(edges, LAMBDA e : e.type \in types)

\* `conds_c2bp *= 1_000`
ScaleImpact(q) == QMul(q, QInt(1000))

conds_c2c(edges, ps) ==
    LET rows == RowsOfType(edges, {0}) IN
    [k \in 1..Len(rows) |->
        QDiv(compute_coupling_cond(
                 At(ps.radius, rows[k].sink),
                 At(ps.radius, rows[k].source),
                 At(ps.axial_resistivity, rows[k].sink),
                 At(ps.axial_resistivity, rows[k].source),
                 At(ps.length, rows[k].sink),
                 At(ps.length, rows[k].source)),
             QInt(At(ps.capacitance, rows[k].sink)))]

conds_bp2c(edges, ps) ==
    LET rows == RowsOfType(edges, {1, 2}) IN
    [k \in 1..Len(rows) |->
        QDiv(compute_coupling_cond_branchpoint(
                 At(ps.radius, rows[k].sink),
                 At(ps.axial_resistivity, rows[k].sink),
                 At(ps.length, rows[k].sink)),
             QInt(At(ps.capacitance, rows[k].sink)))]

conds_c2bp(edges, ps) ==
    LET rows == RowsOfType(edges, {3, 4}) IN
    [k \in 1..Len(rows) |->
        ScaleImpact(compute_impact_on_node(
                 At(ps.radius, rows[k].source),
                 At(ps.axial_resistivity, rows[k].source),
                 At(ps.length, rows[k].source)))]

\* (variant: the branch-point parts concatenated the other way round)
compute_axial_conductances_c2bp_first(edges, ps) ==
    [status |-> "ok",
     conds |-> conds_c2c(edges, ps) \o conds_c2bp(edges, ps) \o conds_bp2c(edges, ps)]

\* The function has no raise and no assert: it returns the concatenation
\* whatever the parameters are.
compute_axial_conductances(edges, ps) ==
    [status |-> "ok",
     conds |-> conds_c2c(edges, ps) \o conds_bp2c(edges, ps) \o conds_c2bp(edges, ps)]

\* The compartments the edge tables are about, and the node index of the
\* branch point they share (the first index after the compartments).
Comps == {0, 1}

BranchpointNode == Cardinality(Comps)

EdgeRows ==
    {e \in {[source |-> s, sink |-> t, type |-> 0] : s, t \in Comps} :
        e.source # e.sink}
    \cup {[source |-> BranchpointNode, sink |-> c, type |-> ty] :
              c \in Comps, ty \in {1, 2}}
    \cup {[source |-> c, sink |-> BranchpointNode, type |-> ty] :
              c \in Comps, ty \in {3, 4}}

MakeParams(rad, len, ra, cm) ==
    [radius |-> rad, length |-> len, axial_resistivity |-> ra, capacitance |-> cm]

\* Strictly positive parameter arrays, different in the two compartments.
ValidParams ==
    {MakeParams(<<1, 2>>, <<2, 3>>, <<3, 1>>, <<1, 2>>),
     MakeParams(<<2, 1>>, <<1, 1>>, <<1, 2>>, <<3, 1>>),
     MakeParams(<<3, 3>>, <<2, 1>>, <<2, 2>>, <<1, 1>>)}

ParamFields == {"radius", "length", "axial_resistivity", "capacitance"}

\* The same arrays with one entry made zero or negative.
InvalidParams ==
    {[ps EXCEPT ![f] = SetAt(ps[f], c, v)] :
        ps \in {MakeParams(<<1, 2>>, <<2, 3>>, <<3, 1>>, <<1, 2>>)},
        f \in ParamFields, c \in Comps, v \in {0, -1}}

InitCond ==
    /\ comp_edges \in SeqsUpTo(EdgeRows, MaxEdges)
    /\ params \in ValidParams \cup InvalidParams
    /\ axial_conds = [status |-> "none", conds |-> <<>>]

IdleCond ==
    /\ comp_edges = <<>>
    /\ params = MakeParams(<<>>, <<>>, <<>>, <<>>)
    /\ axial_conds = [status |-> "none", conds |-> <<>>]

ComputeAxialConductances ==
    /\ pc = "start"
    /\ pc' = "conds"
    /\ axial_conds' = compute_axial_conductances(comp_edges, params)
    /\ UNCHANGED <<comp_edges, params,
                   topoVars, remapVars, groupVars, morphVars, cellVars,
                   levelVars, couplingVars, summedVars>>

(***************************************************************************)
(* The assembly for a single unbranched branch: the parent array is [-1],  *)
(* so Cell.__init__ leaves an empty branch-edge table, and the              *)
(* compartment-edge table holds only edges between compartments of the     *)
(* branch (type 0).                                                        *)
(***************************************************************************)
UnbranchedParents == <<-1>>

UnbranchedCompEdges ==
    SeqsUpTo({e \in EdgeRows : e.type = 0}, MaxEdges)

InitUnbranched ==
    /\ comb_parents = UnbranchedParents
    /\ branch_edges = branch_edges_of(comb_parents)
    /\ children_and_parents = <<>>
    /\ morph = NoTables
    /\ comp_edges \in UnbranchedCompEdges
    /\ params \in ValidParams
    /\ axial_conds = [status |-> "none", conds |-> <<>>]

\* the conductances are computed once the index tables are there
ComputeAxialConductancesOfMorph ==
    /\ pc = "morph"
    /\ morph.status = "ok"
    /\ pc' = "conds"
    /\ axial_conds' = compute_axial_conductances(comp_edges, params)
    /\ UNCHANGED <<comp_edges, params,
                   topoVars, remapVars, groupVars, morphVars, cellVars,
                   levelVars, couplingVars, summedVars>>

(***************************************************************************)
(* Cell.__init__.                                                          *)
(*                                                                         *)
(* `branches` is a list of Branch objects ([kind |-> "list", count, nseg]) *)
(* or a single Branch used as the template of every branch ([kind |->      *)
(* "Branch", nseg]; its count field is not read).  `built` records which   *)
(* parts of the cell the constructor has built when it returns or raises.  *)
(***************************************************************************)
EmptyCell(status) ==
    [status |-> status, built |-> {}, nseg |-> 0, total_nbranches |-> 0,
     comb_parents |-> <<>>, nodes |-> <<>>, branch_edges |-> <<>>]

\* (variant: the assertion is missing)
lengths_asserted_unchecked(branches, ps) == TRUE

\* assert isinstance(branches, Branch) or len(parents) == len(branches)
lengths_asserted(branches, ps) ==
    branches.kind = "Branch" \/ Len(ps) = branches.count

\* branch_list: len(parents) copies of the template, or the list itself
branch_list_len(branches, ps) ==
    IF branches.kind = "Branch" THEN Len(ps) ELSE branches.count

\* self.nodes: one row per compartment
nodes_of(nseg, nbranches) ==
    [k \in 1..(nseg * nbranches) |->
        [comp_index |-> k - 1, branch_index |-> (k - 1) \div nseg, cell_index |-> 0]]

\* comb_parents[1:]
AfterFirst(ps) == IF ps = <<>> THEN <<>> ELSE Tail(ps)

Cell_init(branches, ps) ==
    IF ~lengths_asserted(branches, ps) THEN EmptyCell("AssertionError")
    ELSE LET n == branch_list_len(branches, ps) IN
         \* branch_list[0].nseg of an empty list
         IF n = 0
         THEN [EmptyCell("IndexError") EXCEPT !.built = {"params"}]
         \* pd.DataFrame of two columns of different lengths
         ELSE IF Len(AfterFirst(ps)) # n - 1
         THEN [EmptyCell("ValueError") EXCEPT
                   !.built = {"params", "nodes"},
                   !.nseg = branches.nseg,
                   !.total_nbranches = n,
                   !.comb_parents = ps,
                   !.nodes = nodes_of(branches.nseg, n)]
         ELSE [status |-> "ok",
               built |-> {"params", "nodes", "branch_edges"},
               nseg |-> branches.nseg,
               total_nbranches |-> n,
               comb_parents |-> ps,
               nodes |-> nodes_of(branches.nseg, n),
               branch_edges |-> branch_edges_of(ps)]

NsegVals == {1, 2}

BranchesArgs ==
    {[kind |-> "list", count |-> k, nseg |-> ns] :
        k \in 0..MaxTreeBranches, ns \in NsegVals}
    \cup {[kind |-> "Branch", count |-> 1, nseg |-> ns] : ns \in NsegVals}

InitCell ==
    /\ ctor_args \in [branches : BranchesArgs, parents : {<<>>} \cup TreeParents]
    /\ cell = EmptyCell("none")

IdleCell ==
    /\ ctor_args = [branches |-> [kind |-> "list", count |-> 0, nseg |-> 1],
                    parents |-> <<>>]
    /\ cell = EmptyCell("none")

ConstructCell ==
    /\ pc = "start"
    /\ pc' = "cell"
    /\ cell' = Cell_init(ctor_args.branches, ctor_args.parents)
    /\ UNCHANGED <<ctor_args, topoVars, remapVars, groupVars, morphVars, condVars,
                   levelVars, couplingVars, summedVars>>

(***************************************************************************)
(* Topology Builder: compute_children_in_level, compute_parents_in_level.  *)
(***************************************************************************)
SeqMax(s) == CHOOSE m \in Range(s) : \A x \in Range(s) : x <= m

\* the Python indices of `s`, in increasing order, whose element is v
IndicesWhere(s, v) == SelectSeq(arange(Len(s)), LAMBDA i : At(s, i) = v)

\* table[inds]: the rows at the given indices; an index outside the table
\* is an IndexError
AllIndexOk(inds, n) == \A k \in 1..Len(inds) : IndexOk(inds[k], n)

Take(table, inds) ==
    [k \in 1..Len(inds) |-> At(table, NormIndex(inds[k], Len(table)))]

NoGroups == [status |-> "none", groups |-> <<>>]

\* (variant: the row of branch b is looked up at index b)
children_row_index_same(b) == b

\* children_row_and_col[b - 1]
children_row_index(b) == b - 1

\* the row indices appended for level l
children_rows_of_level(lv, l) ==
    LET bs == IndicesWhere(lv, l)
    IN  [k \in 1..Len(bs) |-> children_row_index(bs[k])]

compute_children_in_level(lv, children_row_and_col) ==
    IF lv = <<>> THEN [status |-> "ValueError", groups |-> <<>>]
    ELSE IF \E l \in 1..SeqMax(lv) :
                ~AllIndexOk(children_rows_of_level(lv, l),
                            Len(children_row_and_col))
         THEN [status |-> "IndexError", groups |-> <<>>]
         ELSE [status |-> "ok",
               groups |-> [l \in 1..SeqMax(lv) |->
                              Take(children_row_and_col,
                                   children_rows_of_level(lv, l))]]

compute_parents_in_level(lv, par_inds, parents_row_and_col) ==
    IF lv = <<>> THEN [status |-> "ValueError", groups |-> <<>>]
    ELSE IF ~AllIndexOk(par_inds, Len(lv))
         THEN [status |-> "IndexError", groups |-> <<>>]
         ELSE LET level_of_parent == Take(lv, par_inds) IN
              [status |-> "ok",
               groups |-> [l \in 1..SeqMax(lv) |->
                              Take(parents_row_and_col,
                                   IndicesWhere(level_of_parent, l - 1))]]

\* The topologically sorted parent arrays of up to MaxTreeBranches branches:
\* every branch is a root or names an earlier branch, so branch 0 is a root
\* and further roots may follow.
SortedParents ==
    UNION {
        {ps \in [1..n -> (-1)..(n - 1)] : \A b \in 0..(n - 1) : At(ps, b) < b}
        : n \in 1..MaxTreeBranches}

\* The levels and the edge tables of the cell are in place before the level
\* groups are computed; the number of branch points is the number of
\* distinct parents.
InitLevelGroups ==
    /\ comb_parents \in SortedParents
    /\ parents = comb_parents
    /\ levels = compute_levels(comb_parents)
    /\ branch_edges = branch_edges_of(comb_parents)
    /\ children_and_parents = compute_children_and_parents(branch_edges)
    /\ morph = compute_morphology_indices_in_levels(
                   Len(children_and_parents.par_inds),
                   children_and_parents.child_belongs_to_branchpoint,
                   children_and_parents.par_inds,
                   children_and_parents.child_inds)
    /\ children_in_level = NoGroups
    /\ parents_in_level = NoGroups

IdleLevel ==
    /\ children_in_level = NoGroups
    /\ parents_in_level = NoGroups

ComputeChildrenInLevel ==
    /\ pc = "start"
    /\ pc' = "children_in_level"
    /\ children_in_level' = compute_children_in_level(levels.levels, morph.children)
    /\ UNCHANGED <<parents_in_level, topoVars, remapVars, groupVars, morphVars,
                   condVars, cellVars, couplingVars, summedVars>>

ComputeParentsInLevel ==
    /\ pc = "children_in_level"
    /\ pc' = "parents_in_level"
    /\ parents_in_level' =
          compute_parents_in_level(levels.levels, children_and_parents.par_inds,
                                   morph.parents)
    /\ UNCHANGED <<children_in_level, topoVars, remapVars, groupVars, morphVars,
                   condVars, cellVars, couplingVars, summedVars>>

IdleCoupling ==
    /\ coupling_args = <<>>
    /\ coupling_cond = NonFinite
    /\ coupling_cond_swapped = NonFinite
    /\ branch_conds = <<>>

IdleSummed ==
    /\ summed_args = <<>>
    /\ summed_conds = <<>>

(***************************************************************************)
(* Conductance Calculator: compute_coupling_cond on two compartments, and  *)
(* Cell.init_cell_conds on the two compartments that meet at a branch      *)
(* point.                                                                  *)
(***************************************************************************)
\* branch_conds_fwd and branch_conds_bwd, each `*= 10**7` before the return
init_cell_conds(ra_parent, ra_child, r_parent, r_child, l_parent, l_child) ==
    LET branch_conds_fwd ==
            compute_coupling_cond(r_child, r_parent, ra_child, ra_parent,
                                  l_child, l_parent)
        branch_conds_bwd ==
            compute_coupling_cond(r_parent, r_child, ra_parent, ra_child,
                                  l_parent, l_child)
    IN  <<TimesTenPow7(branch_conds_fwd), TimesTenPow7(branch_conds_bwd)>>

GeomVals == 0..MaxGeom

CouplingArgs ==
    [rad1 : GeomVals, rad2 : GeomVals, r_a1 : GeomVals, r_a2 : GeomVals,
     l1 : GeomVals, l2 : GeomVals]

InitCoupling ==
    /\ coupling_args \in CouplingArgs
    /\ coupling_cond = NonFinite
    /\ coupling_cond_swapped = NonFinite
    /\ branch_conds = <<>>

ComputeCouplingCond ==
    /\ pc = "start"
    /\ pc' = "coupling"
    /\ coupling_cond' =
          compute_coupling_cond(coupling_args.rad1, coupling_args.rad2,
                                coupling_args.r_a1, coupling_args.r_a2,
                                coupling_args.l1, coupling_args.l2)
    /\ UNCHANGED <<coupling_args, coupling_cond_swapped, branch_conds,
                   topoVars, remapVars, groupVars, morphVars, condVars,
                   cellVars, levelVars, summedVars>>

ComputeCouplingCondSwapped ==
    /\ pc = "coupling"
    /\ pc' = "coupling_swapped"
    /\ coupling_cond_swapped' =
          compute_coupling_cond(coupling_args.rad2, coupling_args.rad1,
                                coupling_args.r_a2, coupling_args.r_a1,
                                coupling_args.l2, coupling_args.l1)
    /\ UNCHANGED <<coupling_args, coupling_cond, branch_conds,
                   topoVars, remapVars, groupVars, morphVars, condVars,
                   cellVars, levelVars, summedVars>>

\* compartment 1 is the parent's, compartment 2 the child's
InitCellConds ==
    /\ pc = "start"
    /\ pc' = "cell_conds"
    /\ branch_conds' =
          init_cell_conds(coupling_args.r_a1, coupling_args.r_a2,
                          coupling_args.rad1, coupling_args.rad2,
                          coupling_args.l1, coupling_args.l2)
    /\ UNCHANGED <<coupling_args, coupling_cond, coupling_cond_swapped,
                   topoVars, remapVars, groupVars, morphVars, condVars,
                   cellVars, levelVars, summedVars>>

(***************************************************************************)
(* Cell.update_summed_coupling_conds.  summed_conds is a matrix of         *)
(* [num_branches, nseg] entries, kept as a sequence of rows; conductances  *)
(* are floats of integral value.                                           *)
(***************************************************************************)
InMatrix(mat, row, col) ==
    /\ 0 <= row /\ row < Len(mat)
    /\ 0 <= col /\ col < Len(At(mat, row))

AddToEntry(mat, row, col, v) ==
    SetAt(mat, row, SetAt(At(mat, row), col, At(At(mat, row), col) + v))

SetEntry(mat, row, col, v) ==
    SetAt(mat, row, SetAt(At(mat, row), col, v))

\* (variant: an update replaces the entry, so of several updates of one
\* entry only the last is kept)
RECURSIVE scatter_overwrite(_, _, _, _)
scatter_overwrite(operand, indices, updates, k) ==
    IF k = Len(indices) THEN operand
    ELSE LET ix == At(indices, k) IN
         IF InMatrix(operand, ix[1], ix[2])
         THEN scatter_overwrite(SetEntry(operand, ix[1], ix[2], At(updates, k)),
                                indices, updates, k + 1)
         ELSE scatter_overwrite(operand, indices, updates, k + 1)

\* jax.lax.scatter_add with one (row, column) index per update: every update
\* is added to its entry, updates of the same entry accumulate, an index
\* outside the operand is skipped
RECURSIVE scatter_add(_, _, _, _)
scatter_add(operand, indices, updates, k) ==
    IF k = Len(indices) THEN operand
    ELSE LET ix == At(indices, k) IN
         IF InMatrix(operand, ix[1], ix[2])
         THEN scatter_add(AddToEntry(operand, ix[1], ix[2], At(updates, k)),
                          indices, updates, k + 1)
         ELSE scatter_add(operand, indices, updates, k + 1)

\* mat.at[rows, col].add(vals): col may count from the end
RECURSIVE at_add_column(_, _, _, _, _)
at_add_column(mat, rows, col, vals, k) ==
    IF k = Len(rows) THEN mat
    ELSE LET r == At(rows, k) IN
         IF IndexOk(r, Len(mat))
            /\ IndexOk(col, Len(At(mat, NormIndex(r, Len(mat)))))
         THEN LET rr == NormIndex(r, Len(mat))
                  cc == NormIndex(col, Len(At(mat, rr)))
              IN  at_add_column(AddToEntry(mat, rr, cc, At(vals, k)),
                                rows, col, vals, k + 1)
         ELSE at_add_column(mat, rows, col, vals, k + 1)

update_summed_coupling_conds(summed, child_inds, conds_fwd, conds_bwd, ps) ==
    LET added_bwd ==
            at_add_column(summed, child_inds, -1, Take(conds_bwd, child_inds), 0)
        parents_of_children == Take(ps, child_inds)
    IN  scatter_add(added_bwd,
                    StackT(parents_of_children, Zeros(Len(parents_of_children))),
                    Take(conds_fwd, child_inds), 0)

\* Cell.init_conds passes the child column of branch_edges, comb_parents,
\* and branch conductances that are zero at the root and set at every child.
CondTrees == {ps \in TreeParents : Len(ps) <= MaxCondBranches}

FwdVals == {1, 2}

BwdVals == {10, 20}

BranchConds(n, vals) ==
    {c \in [1..n -> vals \cup {0}] :
        /\ c[1] = 0
        /\ \A b \in 2..n : c[b] \in vals}

\* summed_coupling_conds as the branches left it: nothing yet, or a different
\* value in every compartment
SummedBefore(n, nseg) ==
    {[b \in 1..n |-> [j \in 1..nseg |-> 0]],
     [b \in 1..n |-> [j \in 1..nseg |-> 100 * ((b - 1) * nseg + j)]]}

SummedArgs ==
    UNION {
        [summed_conds : SummedBefore(Len(ps), nseg),
         child_inds : {Column(branch_edges_of(ps), 2)},
         conds_fwd : BranchConds(Len(ps), FwdVals),
         conds_bwd : BranchConds(Len(ps), BwdVals),
         parents : {ps},
         nseg : {nseg}]
        : ps \in CondTrees, nseg \in 1..MaxNseg}

InitSummed ==
    /\ summed_args \in SummedArgs
    /\ summed_conds = <<>>

UpdateSummedCouplingConds ==
    /\ pc = "start"
    /\ pc' = "summed"
    /\ summed_conds' =
          update_summed_coupling_conds(summed_args.summed_conds,
                                       summed_args.child_inds,
                                       summed_args.conds_fwd,
                                       summed_args.conds_bwd,
                                       summed_args.parents)
    /\ UNCHANGED <<summed_args, topoVars, remapVars, groupVars, morphVars,
                   condVars, cellVars, levelVars, couplingVars>>

(***************************************************************************)
(* Properties of compute_levels.                                           *)
(***************************************************************************)
Branches(ps) == 0..(Len(ps) - 1)

IsRoot(ps, b) == At(ps, b) = -1

\* roots are -1 and every other branch names an earlier branch as parent
TopoSorted(ps) ==
    \A b \in Branches(ps) : IsRoot(ps, b) \/ (0 <= At(ps, b) /\ At(ps, b) < b)

\* an entry that names a place of the array, from the front (0 .. n-1) or
\* from the back (-n .. -1)
Indexable(ps, b) == (-Len(ps) <= At(ps, b)) /\ (At(ps, b) < Len(ps))

\* the place such an entry names
ParentOf(ps, b) == IF At(ps, b) < 0 THEN Len(ps) + At(ps, b) ELSE At(ps, b)

AllIndexable(ps) ==
    \A b \in Branches(ps) : IsRoot(ps, b) \/ Indexable(ps, b)

\* the branch k parent-steps above b, or -1 once a root or an entry outside
\* the array has been passed
RECURSIVE Ancestor(_, _, _)
Ancestor(ps, b, k) ==
    IF k = 0 \/ b = -1 THEN b
    ELSE IF IsRoot(ps, b) \/ ~Indexable(ps, b) THEN -1
         ELSE Ancestor(ps, ParentOf(ps, b), k - 1)

HasCycle(ps) == \E b \in Branches(ps) : Ancestor(ps, b, Len(ps)) # -1

\* a cycle, or a non-root branch whose parent index is not smaller than its own
Malformed(ps) ==
    HasCycle(ps) \/ \E b \in Branches(ps) : At(ps, b) >= b

LevelRelation(ps, lv) ==
    \A b \in Branches(ps) :
        IF IsRoot(ps, b) THEN At(lv, b) = 0
        ELSE At(lv, b) = At(lv, ParentOf(ps, b)) + 1

\* C1: for a parent array whose roots are -1 and whose other branches each
\* name an earlier branch as parent, compute_levels returns as many levels as
\* there are branches, 0 for every root and level[parent[b]] + 1 for every
\* non-root branch b.
C1_LevelsOfSortedParents ==
    (pc = "levels" /\ TopoSorted(parents)) =>
        /\ levels.status = "ok"
        /\ Len(levels.levels) = Len(parents)
        /\ LevelRelation(parents, levels.levels)

\* a chain of three branches gets the levels 0, 1, 2
C1_Witness ==
    /\ pc = "levels"
    /\ parents = <<-1, 0, 1>>
    /\ levels = [status |-> "ok", levels |-> <<0, 1, 2>>]

\* C9 as claimed: compute_levels fails, and returns no level array, whenever
\* the parent array has a cycle or a non-root branch whose parent index is
\* not smaller than its own.
C9_MalformedFailsFast ==
    (pc = "levels" /\ Malformed(parents)) => levels.status # "ok"

\* C9 as amended: compute_levels validates nothing.  For a malformed parent
\* array whose non-root entries are all indices numpy accepts it returns a
\* level array of the same length, and it raises (IndexError) exactly when
\* some non-root entry is outside the array; it never changes the array it
\* was given.
C9_MalformedNotChecked ==
    /\ [](  (pc = "levels" /\ Malformed(parents)) =>
              IF AllIndexable(parents)
              THEN levels.status = "ok" /\ Len(levels.levels) = Len(parents)
              ELSE levels.status = "IndexError")
    /\ [][parents' = parents]_vars

\* branch 1 names the later branch 2 as parent: levels come back, and they
\* break level[1] = level[2] + 1
C9_Witness ==
    /\ pc = "levels"
    /\ parents = <<-1, 2, 0>>
    /\ levels = [status |-> "ok", levels |-> <<0, 1, 1>>]
    /\ ~LevelRelation(parents, levels.levels)

(***************************************************************************)
(* Properties of remap_to_consecutive.                                     *)
(***************************************************************************)
Remapped == pc \in {"remapped", "remapped_again"}

\* C2: remap_to_consecutive returns an array of the same length whose values
\* are exactly 0 .. k-1, k the number of distinct inputs; two positions get
\* the same output iff their inputs are equal, and a smaller input gets a
\* smaller output.
C2_RemapConsecutive ==
    Remapped =>
        /\ Len(remapped) = Len(arr)
        /\ Range(remapped) = 0..(Cardinality(Range(arr)) - 1)
        /\ \A i, j \in 1..Len(arr) :
              /\ (remapped[i] = remapped[j]) <=> (arr[i] = arr[j])
              /\ (arr[i] < arr[j]) => (remapped[i] < remapped[j])

\* an unsorted array with a repeated value and a negative one
C2_Witness ==
    /\ pc = "remapped"
    /\ arr = <<7, -1, 7, 3>>
    /\ remapped = <<2, 0, 2, 1>>

\* C3: remap_to_consecutive is idempotent: applied to its own output it
\* returns that output unchanged.
C3_RemapIdempotent ==
    (pc = "remapped_again") => (remapped_again = remapped)

\* the second application has run on the output of a non-trivial first one
C3_Witness ==
    /\ pc = "remapped_again"
    /\ arr = <<7, -1, 7, 3>>
    /\ remapped # arr
    /\ remapped_again = <<2, 0, 2, 1>>

(***************************************************************************)
(* Properties of group_and_sum.                                            *)
(***************************************************************************)
RECURSIVE SumAt(_, _)
SumAt(vals, K) ==
    IF K = {} THEN 0
    ELSE LET k == CHOOSE x \in K : TRUE
         IN  vals[k] + SumAt(vals, K \ {k})

\* the sum of the values whose group id is g
GroupTotal(vals, inds, g) ==
    SumAt(vals, {k \in 1..Len(inds) : inds[k] = g})

\* C4: with num_branchpoints > 0 and every group id in 0 .. num_branchpoints-1,
\* group_and_sum returns num_branchpoints entries, entry g being the sum of
\* all values whose id is g (0 when there is none): repeated ids accumulate.
C4_GroupedSums ==
    (/\ pc = "grouped"
     /\ num_branchpoints > 0
     /\ \A k \in 1..Len(inds_to_group_by) :
           inds_to_group_by[k] \in 0..(num_branchpoints - 1))
    => /\ Len(group_sums) = num_branchpoints
       /\ \A g \in 0..(num_branchpoints - 1) :
             At(group_sums, g) = GroupTotal(values_to_sum, inds_to_group_by, g)

\* ids [0,0,1] with values [3,4,5] over 2 branch points give [7,5]
C4_Witness ==
    /\ pc = "grouped"
    /\ num_branchpoints = 2
    /\ inds_to_group_by = <<0, 0, 1>>
    /\ values_to_sum = <<3, 4, 5>>
    /\ group_sums = <<7, 5>>

\* C5: with num_branchpoints = 0, group_and_sum returns an empty aggregate
\* and performs no indexed add, whatever values and ids it is given.
C5_NoBranchpoints ==
    (pc = "grouped" /\ num_branchpoints = 0) =>
        (group_sums = <<>> /\ ~indexed_add)

\* zero branch points, called with values and ids all the same
C5_Witness ==
    /\ pc = "grouped"
    /\ num_branchpoints = 0
    /\ Len(inds_to_group_by) = MaxSummed
    /\ group_sums = <<>>
    /\ ~indexed_add

(***************************************************************************)
(* Properties of the children and parents tables.                          *)
(***************************************************************************)
NonRootBranches(ps) == {b \in Branches(ps) : ~IsRoot(ps, b)}

\* the branches that are the parent of at least one branch
ParentsWithChildren(ps) == {At(ps, b) : b \in NonRootBranches(ps)}

RowsWith(table, c, v) == {k \in 1..Len(table) : table[k][c] = v}

\* C6: compute_children_and_parents followed by
\* compute_morphology_indices_in_levels succeeds exactly when the number of
\* branch points passed is the number of distinct parent branches with a
\* child, and then yields a children table with exactly one row (child,
\* branch-point id) per non-root branch and a parents table with exactly one
\* row (parent, branch-point id) per such parent.
C6_ChildrenAndParentsTables ==
    (pc = "morph") =>
        LET np == Cardinality(ParentsWithChildren(comb_parents)) IN
        /\ (morph.status = "ok") <=> (morph.num_branchpoints = np)
        /\ (morph.status = "ok") =>
              /\ Len(morph.children) = Cardinality(NonRootBranches(comb_parents))
              /\ \A b \in NonRootBranches(comb_parents) :
                    Cardinality(RowsWith(morph.children, 1, b)) = 1
              /\ \A k \in 1..Len(morph.children) :
                    morph.children[k][2] \in 0..(morph.num_branchpoints - 1)
              /\ Len(morph.parents) = np
              /\ \A p \in ParentsWithChildren(comb_parents) :
                    Cardinality(RowsWith(morph.parents, 1, p)) = 1
              /\ \A k \in 1..Len(morph.parents) :
                    morph.parents[k][2] = k - 1

\* parents [-1,0,0]: children rows (1,0), (2,0) and the one parents row (0,0)
C6_Witness ==
    /\ pc = "morph"
    /\ comb_parents = <<-1, 0, 0>>
    /\ morph = [status |-> "ok", num_branchpoints |-> 1,
                children |-> << <<1, 0>>, <<2, 0>> >>,
                parents |-> << <<0, 0>> >>]

(***************************************************************************)
(* Properties of compute_axial_conductances.                               *)
(***************************************************************************)
C2C  == {0}
BP2C == {1, 2}
C2BP == {3, 4}

NumOfType(edges, types) ==
    Cardinality({j \in 1..Len(edges) : edges[j].type \in types})

\* how many rows before row k have a type in `types`
NumBefore(edges, k, types) ==
    Cardinality({j \in 1..(k - 1) : edges[j].type \in types})

\* where the entry of row k belongs (Python index): behind the groups that
\* come first, at the row's rank within its own group
PlaceOf(edges, k) ==
    IF edges[k].type \in C2C THEN NumBefore(edges, k, C2C)
    ELSE IF edges[k].type \in BP2C
         THEN NumOfType(edges, C2C) + NumBefore(edges, k, BP2C)
         ELSE NumOfType(edges, C2C) + NumOfType(edges, BP2C)
                  + NumBefore(edges, k, C2BP)

\* what the entry of edge e is to be
EntryOf(e, ps) ==
    IF e.type \in C2C
    THEN QDiv(compute_coupling_cond(
                  At(ps.radius, e.sink), At(ps.radius, e.source),
                  At(ps.axial_resistivity, e.sink),
                  At(ps.axial_resistivity, e.source),
                  At(ps.length, e.sink), At(ps.length, e.source)),
              QInt(At(ps.capacitance, e.sink)))
    ELSE IF e.type \in BP2C
         THEN QDiv(compute_coupling_cond_branchpoint(
                       At(ps.radius, e.sink),
                       At(ps.axial_resistivity, e.sink),
                       At(ps.length, e.sink)),
                   QInt(At(ps.capacitance, e.sink)))
         ELSE QMul(compute_impact_on_node(
                       At(ps.radius, e.source),
                       At(ps.axial_resistivity, e.source),
                       At(ps.length, e.source)),
                   QInt(1000))

\* C7: compute_axial_conductances returns one entry per edge, all c2c
\* entries first, then all bp2c entries, then all c2bp entries, each group in
\* the order of the edge table; a c2c or bp2c entry is its formula's value
\* divided by the capacitance of the edge's sink compartment, a c2bp entry
\* is the node-impact weight of the source compartment times 1000.
C7_AxialConductanceLayout ==
    (pc = "conds") =>
        /\ axial_conds.status = "ok"
        /\ Len(axial_conds.conds) = Len(comp_edges)
        /\ \A k \in 1..Len(comp_edges) :
              At(axial_conds.conds, PlaceOf(comp_edges, k))
                  = EntryOf(comp_edges[k], params)

\* a table listing a c2bp edge, then a c2c edge, then a bp2c edge: the vector
\* holds the c2c entry 2/81 * 10^7 / 2, the bp2c entry 1/12 * 10^7 / 1 and the
\* c2bp entry 1/6 * 1000, in this order
C7_Witness ==
    /\ pc = "conds"
    /\ params = MakeParams(<<1, 2>>, <<2, 3>>, <<3, 1>>, <<1, 2>>)
    /\ comp_edges = << [source |-> 0, sink |-> 2, type |-> 3],
                       [source |-> 0, sink |-> 1, type |-> 0],
                       [source |-> 2, sink |-> 0, type |-> 2] >>
    /\ axial_conds.conds = << [num |-> 1, den |-> 81, e7 |-> 1],
                              [num |-> 1, den |-> 12, e7 |-> 1],
                              [num |-> 500, den |-> 3, e7 |-> 0] >>

\* compartment c has a radius, length, axial resistivity or capacitance
\* that is not positive
NonPositiveAt(ps, c) == \E f \in ParamFields : At(ps[f], c) <= 0

\* some edge of the table has such a compartment as its source or sink
ReadsNonPositive(edges, ps) ==
    \E k \in 1..Len(edges) :
        \E c \in {edges[k].source, edges[k].sink} \cap Comps :
            NonPositiveAt(ps, c)

\* C8 as claimed: when a radius, length, axial resistivity or capacitance of
\* a compartment on an edge is not positive, compute_axial_conductances
\* fails with an error and returns no conductance vector.
C8_InvalidGeometryRejected ==
    (pc = "conds" /\ ReadsNonPositive(comp_edges, params))
        => axial_conds.status # "ok"

\* a sink compartment of length 0: the c2c entry returned is the result of a
\* division by zero
C8_Witness ==
    /\ pc = "conds"
    /\ params = MakeParams(<<1, 2>>, <<2, 0>>, <<3, 1>>, <<1, 2>>)
    /\ comp_edges = << [source |-> 0, sink |-> 1, type |-> 0] >>
    /\ axial_conds = [status |-> "ok", conds |-> <<NonFinite>>]

\* a negative radius: the bp2c entry returned is a negative conductance
C8_WitnessNegative ==
    /\ pc = "conds"
    /\ params = MakeParams(<<-1, 2>>, <<2, 3>>, <<3, 1>>, <<1, 2>>)
    /\ comp_edges = << [source |-> 2, sink |-> 0, type |-> 1] >>
    /\ axial_conds.status = "ok"
    /\ IsNegative(axial_conds.conds[1])

(***************************************************************************)
(* Properties of Cell.__init__.                                            *)
(***************************************************************************)
\* a list of branches with a parent array of another length
LengthMismatch(args) ==
    args.branches.kind = "list" /\ args.branches.count # Len(args.parents)

\* C10: constructing a Cell from a list of branches and a parent array of
\* another length fails with the assertion's error before any parameter,
\* index table or branch-edge table is built; and however the branches are
\* passed, a constructed cell has as many branches as parents (a Branch
\* template is repeated once per parent, so no mismatch can arise from it).
C10_LengthMismatchFailsFirst ==
    (pc = "cell") =>
        /\ LengthMismatch(ctor_args) => cell = EmptyCell("AssertionError")
        /\ (cell.status = "ok") =>
              /\ cell.total_nbranches = Len(ctor_args.parents)
              /\ cell.comb_parents = ctor_args.parents
              /\ Len(cell.branch_edges) = cell.total_nbranches - 1
        /\ (ctor_args.branches.kind = "Branch") => cell.status # "AssertionError"

\* three branches passed with the parents of a two-branch tree
C10_Witness ==
    /\ pc = "cell"
    /\ ctor_args.branches = [kind |-> "list", count |-> 3, nseg |-> 2]
    /\ ctor_args.parents = <<-1, 0>>
    /\ cell.status = "AssertionError"
    /\ cell.built = {}

(***************************************************************************)
(* Properties of compute_children_in_level and compute_parents_in_level.   *)
(***************************************************************************)
LevelOf(b) == At(levels.levels, b)

MaxLevel == SeqMax(levels.levels)

NoDuplicates(s) == Cardinality(Range(s)) = Len(s)

\* the rows of the children table whose child branch has level l
ChildRowsAtLevel(l) == {r \in Range(morph.children) : LevelOf(r[1]) = l}

\* the 1-based groups of the children grouping that hold the row of branch b
ChildGroupsOf(b) ==
    {l \in 1..Len(children_in_level.groups) :
        \E r \in Range(children_in_level.groups[l]) : r[1] = b}

ChildrenGroupedByLevel ==
    /\ children_in_level.status = "ok"
    /\ Len(children_in_level.groups) = MaxLevel
    /\ \A l \in 1..MaxLevel :
          /\ Range(children_in_level.groups[l]) = ChildRowsAtLevel(l)
          /\ NoDuplicates(children_in_level.groups[l])
    /\ \A b \in NonRootBranches(comb_parents) :
          Cardinality(ChildGroupsOf(b)) = 1

ParentsGroupedByLevel ==
    /\ parents_in_level.status = "ok"
    /\ Len(parents_in_level.groups) = MaxLevel
    /\ \A l \in 1..MaxLevel :
          /\ Range(parents_in_level.groups[l]) \subseteq Range(morph.parents)
          /\ NoDuplicates(parents_in_level.groups[l])
          /\ \A r \in Range(morph.parents) :
                r[1] >= 0 =>
                   (r \in Range(parents_in_level.groups[l])
                       <=> LevelOf(r[1]) = l - 1)

\* C11: for every topologically sorted parent array and the edge tables built
\* from it, compute_children_in_level returns one group per level
\* 1..max(levels), the group of level l holds exactly the children-table rows
\* of the branches of level l, each once, and every non-root branch's row is
\* in exactly one group; compute_parents_in_level returns as many groups and
\* puts the row of every parent branch in exactly the group of that branch's
\* level.
C11_GroupsPartitionByLevel ==
    /\ pc \in {"children_in_level", "parents_in_level"} => ChildrenGroupedByLevel
    /\ pc = "parents_in_level" => ParentsGroupedByLevel

\* a tree of at least three levels in which one level holds two branches and
\* one parent group holds two parents
C11_Witness ==
    /\ pc = "parents_in_level"
    /\ children_in_level.status = "ok"
    /\ parents_in_level.status = "ok"
    /\ Len(children_in_level.groups) >= 2
    /\ \E l \in 1..Len(children_in_level.groups) :
          Len(children_in_level.groups[l]) >= 2
    /\ \E l \in 1..Len(parents_in_level.groups) :
          Len(parents_in_level.groups[l]) >= 2

(***************************************************************************)
(* Properties of compute_coupling_cond and Cell.init_cell_conds.           *)
(***************************************************************************)
IsPositive(q) == IsFinite(q) /\ q.num > 0 /\ q.den > 0

AllPositive(a) ==
    /\ a.rad1 > 0 /\ a.rad2 > 0
    /\ a.r_a1 > 0 /\ a.r_a2 > 0
    /\ a.l1 > 0 /\ a.l2 > 0

\* C12: for strictly positive radii, resistivities and lengths both
\* compute_coupling_cond(r1, r2, ra1, ra2, l1, l2) and the call with the two
\* compartments swapped are finite and strictly positive; and the function
\* is not symmetric: for some positive arguments the two values differ.
C12_CouplingPositiveNotSymmetric ==
    /\ (pc \in {"coupling", "coupling_swapped"} /\ AllPositive(coupling_args))
          => IsPositive(coupling_cond)
    /\ (pc = "coupling_swapped" /\ AllPositive(coupling_args))
          => IsPositive(coupling_cond_swapped)
    /\ \E a \in CouplingArgs :
          /\ AllPositive(a)
          /\ compute_coupling_cond(a.rad1, a.rad2, a.r_a1, a.r_a2, a.l1, a.l2)
                # compute_coupling_cond(a.rad2, a.rad1, a.r_a2, a.r_a1,
                                        a.l2, a.l1)

\* positive arguments on which the two directions have been computed and
\* differ
C12_Witness ==
    /\ pc = "coupling_swapped"
    /\ AllPositive(coupling_args)
    /\ IsPositive(coupling_cond)
    /\ IsPositive(coupling_cond_swapped)
    /\ coupling_cond # coupling_cond_swapped

\* the two-compartment coupling formula, already scaled by 10^7, from the
\* child's compartment to the parent's (forward) and back (backward)
CouplingForward(a) ==
    compute_coupling_cond(a.rad2, a.rad1, a.r_a2, a.r_a1, a.l2, a.l1)

CouplingBackward(a) ==
    compute_coupling_cond(a.rad1, a.rad2, a.r_a1, a.r_a2, a.l1, a.l2)

\* C14: the forward and the backward conductance returned by
\* Cell.init_cell_conds equal compute_coupling_cond on the same arguments,
\* that is the coupling formula scaled by 10^7 exactly once.
C14_ScaledOnce ==
    (pc = "cell_conds" /\ AllPositive(coupling_args)) =>
        /\ branch_conds[1] = CouplingForward(coupling_args)
        /\ branch_conds[2] = CouplingBackward(coupling_args)

\* positive arguments for which the returned conductances are the formula's
\* values times a further 10^7
C14_Witness ==
    /\ pc = "cell_conds"
    /\ AllPositive(coupling_args)
    /\ branch_conds[1] = TimesTenPow7(CouplingForward(coupling_args))
    /\ branch_conds[2] = TimesTenPow7(CouplingBackward(coupling_args))
    /\ branch_conds[1] # CouplingForward(coupling_args)
    /\ branch_conds[2] # CouplingBackward(coupling_args)

(***************************************************************************)
(* Properties of the assembly for a single unbranched branch.              *)
(***************************************************************************)
\* C13: for a single unbranched branch (parents [-1], empty branch-edge
\* table) compute_children_and_parents finds no parent, so there are 0
\* branch points; with that number compute_morphology_indices_in_levels
\* succeeds and returns empty children and parents tables; and the vector of
\* compute_axial_conductances holds exactly the compartment-to-compartment
\* entries, one per edge in the order of the table, the branch-point parts
\* being empty.
C13_UnbranchedAssembly ==
    /\ branch_edges = <<>>
    /\ pc \in {"children_and_parents", "morph", "conds"} =>
          /\ children_and_parents.par_inds = <<>>
          /\ children_and_parents.child_inds = <<>>
          /\ children_and_parents.child_belongs_to_branchpoint = <<>>
    /\ (pc \in {"morph", "conds"} /\ morph.num_branchpoints = 0) =>
          /\ morph.status = "ok"
          /\ morph.children = <<>>
          /\ morph.parents = <<>>
    /\ pc = "conds" =>
          /\ axial_conds.status = "ok"
          /\ Len(axial_conds.conds) = Len(comp_edges)
          /\ \A k \in 1..Len(comp_edges) :
                /\ comp_edges[k].type \in C2C
                /\ axial_conds.conds[k] = EntryOf(comp_edges[k], params)

\* the unbranched branch assembled, with conductances in both directions
C13_Witness ==
    /\ pc = "conds"
    /\ comb_parents = <<-1>>
    /\ morph.status = "ok"
    /\ morph.num_branchpoints = 0
    /\ morph.children = <<>>
    /\ axial_conds.status = "ok"
    /\ Len(axial_conds.conds) >= 2
    /\ \E j, k \in 1..Len(comp_edges) : comp_edges[j].sink # comp_edges[k].sink

(***************************************************************************)
(* Agreement of the children and the parents table.                        *)
(***************************************************************************)
\* the number of distinct parents that are smaller than p: the place of p in
\* the sorted list of distinct parents
PlaceAmongParents(ps, p) ==
    Cardinality({q \in ParentsWithChildren(ps) : q < p})

\* C16: when the tables are built, every row (c, k) of the children table
\* names a row k of the parents table, and that row is (parent of c, k);
\* two children have the same id exactly when they have the same parent,
\* and the id is the place of the parent in the sorted list of distinct
\* parents.
C16_TablesAgreeOnBranchpointIds ==
    (pc = "morph" /\ morph.status = "ok") =>
        /\ \A i \in 1..Len(morph.children) :
              LET c == morph.children[i][1]
                  k == morph.children[i][2]
              IN  /\ k \in 0..(Len(morph.parents) - 1)
                  /\ At(morph.parents, k) = <<At(comb_parents, c), k>>
                  /\ k = PlaceAmongParents(comb_parents, At(comb_parents, c))
        /\ \A i, j \in 1..Len(morph.children) :
              (morph.children[i][2] = morph.children[j][2])
                 <=> (At(comb_parents, morph.children[i][1])
                         = At(comb_parents, morph.children[j][1]))

\* a tree in which two children share a branch point and another branch
\* point has an id different from its parent's branch index
C16_Witness ==
    /\ pc = "morph"
    /\ morph.status = "ok"
    /\ \E i, j \in 1..Len(morph.children) :
          /\ i # j
          /\ morph.children[i][2] = morph.children[j][2]
    /\ \E i \in 1..Len(morph.children) :
          /\ morph.children[i][2] # At(comb_parents, morph.children[i][1])
          /\ At(morph.parents, morph.children[i][2])
                = <<At(comb_parents, morph.children[i][1]), morph.children[i][2]>>

(***************************************************************************)
(* Properties of Cell.update_summed_coupling_conds.                        *)
(***************************************************************************)
ChildrenOf(ps, p) == {c \in NonRootBranches(ps) : At(ps, c) = p}

RECURSIVE SumOver(_, _)
SumOver(S, v) ==
    IF S = {} THEN 0
    ELSE LET x == CHOOSE y \in S : TRUE
         IN  At(v, x) + SumOver(S \ {x}, v)

\* what the entry of compartment j of branch b has to grow by
GrowthOf(a, b, j) ==
    (IF j = a.nseg - 1 /\ ~IsRoot(a.parents, b) THEN At(a.conds_bwd, b) ELSE 0)
    + (IF j = 0 THEN SumOver(ChildrenOf(a.parents, b), a.conds_fwd) ELSE 0)

\* C15: update_summed_coupling_conds returns an array of the same shape in
\* which the entry of the last compartment of every non-root branch c has
\* grown by conds_bwd[c], the entry of compartment 0 of every branch p has
\* grown by the sum of conds_fwd[c] over all children c of p, and every
\* other entry is what it was (with one compartment per branch the two
\* growths meet in the same entry and add up).
C15_SummedCondsUpdate ==
    (pc = "summed") =>
        /\ Len(summed_conds) = Len(summed_args.summed_conds)
        /\ \A b \in Branches(summed_args.parents) :
              /\ Len(At(summed_conds, b)) = summed_args.nseg
              /\ \A j \in 0..(summed_args.nseg - 1) :
                    At(At(summed_conds, b), j)
                       = At(At(summed_args.summed_conds, b), j)
                            + GrowthOf(summed_args, b, j)

\* a parent with two children of different forward conductance, two
\* compartments per branch
C15_Witness ==
    /\ pc = "summed"
    /\ summed_args.parents = <<-1, 0, 0>>
    /\ summed_args.nseg = 2
    /\ summed_args.conds_fwd = <<0, 1, 2>>
    /\ summed_args.conds_bwd = <<0, 10, 20>>
    /\ summed_args.summed_conds = << <<100, 200>>, <<300, 400>>, <<500, 600>> >>
    /\ summed_conds = << <<103, 200>>, <<300, 410>>, <<500, 620>> >>

(***************************************************************************)
(* Specifications, one per component.                                      *)
(***************************************************************************)
InitLevels == pc = "start" /\ InitTopo /\ IdleRemap /\ IdleGroup /\ IdleMorph /\ IdleCond /\ IdleCell
    /\ IdleLevel /\ IdleCoupling /\ IdleSummed
NextLevels == ComputeLevels
SpecLevels == InitLevels /\ [][NextLevels]_vars

InitRemapSpec == pc = "start" /\ IdleTopo /\ InitRemap /\ IdleGroup /\ IdleMorph /\ IdleCond /\ IdleCell
    /\ IdleLevel /\ IdleCoupling /\ IdleSummed
NextRemap == Remap \/ RemapAgain
SpecRemap == InitRemapSpec /\ [][NextRemap]_vars

InitGroupSpec == pc = "start" /\ IdleTopo /\ IdleRemap /\ InitGroup /\ IdleMorph /\ IdleCond /\ IdleCell
    /\ IdleLevel /\ IdleCoupling /\ IdleSummed
NextGroup == GroupAndSum
SpecGroup == InitGroupSpec /\ [][NextGroup]_vars

InitMorphSpec == pc = "start" /\ IdleTopo /\ IdleRemap /\ IdleGroup /\ InitMorph /\ IdleCond /\ IdleCell
    /\ IdleLevel /\ IdleCoupling /\ IdleSummed
NextMorph == ComputeChildrenAndParents \/ ComputeMorphologyIndices
SpecMorph == InitMorphSpec /\ [][NextMorph]_vars

InitCondSpec ==
    /\ pc = "start" /\ IdleTopo /\ IdleRemap /\ IdleGroup /\ IdleMorph
    /\ InitCond /\ IdleCell
    /\ IdleLevel /\ IdleCoupling /\ IdleSummed
NextCond == ComputeAxialConductances
SpecCond == InitCondSpec /\ [][NextCond]_vars

InitCellSpec ==
    /\ pc = "start" /\ IdleTopo /\ IdleRemap /\ IdleGroup /\ IdleMorph
    /\ IdleCond /\ InitCell
    /\ IdleLevel /\ IdleCoupling /\ IdleSummed
NextCell == ConstructCell
SpecCell == InitCellSpec /\ [][NextCell]_vars

InitLevelGroupsSpec ==
    /\ pc = "start" /\ IdleRemap /\ IdleGroup /\ IdleCond /\ IdleCell
    /\ InitLevelGroups /\ IdleCoupling /\ IdleSummed
NextLevelGroups == ComputeChildrenInLevel \/ ComputeParentsInLevel
SpecLevelGroups == InitLevelGroupsSpec /\ [][NextLevelGroups]_vars

InitCouplingSpec ==
    /\ pc = "start" /\ IdleTopo /\ IdleRemap /\ IdleGroup /\ IdleMorph
    /\ IdleCond /\ IdleCell /\ IdleLevel /\ InitCoupling /\ IdleSummed
NextCoupling == ComputeCouplingCond \/ ComputeCouplingCondSwapped \/ InitCellConds
SpecCoupling == InitCouplingSpec /\ [][NextCoupling]_vars

InitUnbranchedSpec ==
    /\ pc = "start" /\ IdleTopo /\ IdleRemap /\ IdleGroup /\ InitUnbranched
    /\ IdleCell /\ IdleLevel /\ IdleCoupling /\ IdleSummed
NextUnbranched ==
    \/ ComputeChildrenAndParents
    \/ ComputeMorphologyIndices
    \/ ComputeAxialConductancesOfMorph
SpecUnbranched == InitUnbranchedSpec /\ [][NextUnbranched]_vars

InitSummedSpec ==
    /\ pc = "start" /\ IdleTopo /\ IdleRemap /\ IdleGroup /\ IdleMorph
    /\ IdleCond /\ IdleCell /\ IdleLevel /\ IdleCoupling /\ InitSummed
NextSummed == UpdateSummedCouplingConds
SpecSummed == InitSummedSpec /\ [][NextSummed]_vars

====
